---------------------------- MODULE Spec2Model ----------------------------
(***************************************************************************)
(* Model of the WASM forward-pass kernels of src/wasm/src/lib.rs:          *)
(* dense_forward, mlp_forward, gru_step, lstm_step and rru_step, with the  *)
(* helpers to_usize, dense_dot, dense_dot_mul and sigmoid.                 *)
(*                                                                         *)
(* Memory is a record of flat buffers indexed from 0.  A pointer is a      *)
(* buffer name with an element offset.  NULL is offset 0 of the buffer     *)
(* "null": on wasm32 address 0 is ordinary linear memory, so a load or     *)
(* store through a null pointer does not trap.  Every load and store is    *)
(* logged (fields rd, wr, dots) so that the extent a call touches is part  *)
(* of the state.                                                           *)
(*                                                                         *)
(* f32 values are abstracted to the ring of integers modulo Modulus: + and *)
(* * are the ring operations, 0.0 and 1.0 are 0 and 1, and tanh, exp and   *)
(* the reciprocal are fixed non-identity maps on the ring.  Rounding and   *)
(* the analytic properties of the activations are outside the model; the   *)
(* order of every accumulation is the code's.                              *)
(***************************************************************************)
EXTENDS Integers, Sequences, FiniteSets, TLC

\* ------------------------------------------------------------------ bounds
Modulus == 97
MaxIn == 5
MaxOut == 2
MaxHidden == 4
MaxBatch == 2
MaxLayers == 3
MaxWidth == 2
MaxSeed == 0
MaxCalls == 2

\* ------------------------------------------------------------- arithmetic
Val == 0 .. (Modulus - 1)
Add(a, b) == (a + b) % Modulus
Mul(a, b) == (a * b) % Modulus
Sub(a, b) == (a - b + Modulus) % Modulus
Neg(x) == (Modulus - x) % Modulus
Tanh(x) == (x * x * x + 2 * x) % Modulus
Exp(x) == (x * x + x + 1) % Modulus
Recip(x) == (5 * x * x + x + 3) % Modulus

sigmoid(x) == Recip(Add(1, Exp(Neg(x))))

to_usize(value) == IF value <= 0 THEN 0 ELSE value

\* ---------------------------------------------------------------- pointers
NULL == [buf |-> "null", off |-> 0]
Ptr(b) == [buf |-> b, off |-> 0]
is_null(p) == p.buf = "null"
PtrAdd(p, n) == [buf |-> p.buf, off |-> p.off + n]

LoadVal(m, p) == m[p.buf][p.off]
\* The log entry of a load through p, and the log after a set of loads.
Rd(p) == {<<p.buf, p.off>>}
Log(m, rd, dots) == [m EXCEPT !.rd = @ \cup rd, !.dots = @ \cup dots]
Store(m, p, v) ==
    [m EXCEPT ![p.buf] = [@ EXCEPT ![p.off] = v],
              !.wr = @ \cup {<<p.buf, p.off>>}]

\* *dst = *src
Copy(m, src, dst) == Store(Log(m, Rd(src), {}), dst, LoadVal(m, src))

\* ----------------------------------------------------------- dot products
Lanes == 0 .. 3

\* Mutant: the vector loop runs while i < in_size, so the last group of
\* four lanes runs past the end.
RECURSIVE dense_dot_simd_overrun(_, _, _, _, _, _, _)
dense_dot_simd_overrun(m, weights_ptr, input_ptr, in_size, i, sum, rd) ==
    IF i < in_size
    THEN dense_dot_simd_overrun(m, weights_ptr, input_ptr, in_size, i + 4,
             [k \in Lanes |->
                 Add(sum[k], Mul(LoadVal(m, PtrAdd(weights_ptr, i + k)),
                                 LoadVal(m, PtrAdd(input_ptr, i + k))))],
             rd \o <<i, i + 1, i + 2, i + 3>>)
    ELSE [i |-> i, sum |-> sum, rd |-> rd]

RECURSIVE dense_dot_simd(_, _, _, _, _, _, _)
dense_dot_simd(m, weights_ptr, input_ptr, in_size, i, sum, rd) ==
    IF i + 4 <= in_size
    THEN dense_dot_simd(m, weights_ptr, input_ptr, in_size, i + 4,
             [k \in Lanes |->
                 Add(sum[k], Mul(LoadVal(m, PtrAdd(weights_ptr, i + k)),
                                 LoadVal(m, PtrAdd(input_ptr, i + k))))],
             rd \o <<i, i + 1, i + 2, i + 3>>)
    ELSE [i |-> i, sum |-> sum, rd |-> rd]

RECURSIVE dense_dot_tail(_, _, _, _, _, _, _)
dense_dot_tail(m, weights_ptr, input_ptr, in_size, i, total, rd) ==
    IF i < in_size
    THEN dense_dot_tail(m, weights_ptr, input_ptr, in_size, i + 1,
             Add(total, Mul(LoadVal(m, PtrAdd(weights_ptr, i)),
                            LoadVal(m, PtrAdd(input_ptr, i)))),
             Append(rd, i))
    ELSE [val |-> total, rd |-> rd]

\* What one dot product read: rd holds the element indices in the order
\* they were loaded, through each of ptrs.
DotRd(ptrs, rd) == {<<p.buf, p.off + rd[k]>> : p \in ptrs, k \in 1 .. Len(rd)}

dense_dot(m, weights_ptr, input_ptr, in_size) ==
    LET v == dense_dot_simd(m, weights_ptr, input_ptr, in_size, 0,
                            [k \in Lanes |-> 0], <<>>)
        total == Add(Add(Add(v.sum[0], v.sum[1]), v.sum[2]), v.sum[3])
        t == dense_dot_tail(m, weights_ptr, input_ptr, in_size, v.i, total, v.rd)
    IN  [val |-> t.val, rd |-> DotRd({weights_ptr, input_ptr}, t.rd),
         dots |-> {[n |-> in_size, rd |-> t.rd]}]

RECURSIVE dense_dot_mul_simd(_, _, _, _, _, _, _, _)
dense_dot_mul_simd(m, weights_ptr, a_ptr, b_ptr, len, i, sum, rd) ==
    IF i + 4 <= len
    THEN dense_dot_mul_simd(m, weights_ptr, a_ptr, b_ptr, len, i + 4,
             [k \in Lanes |->
                 Add(sum[k], Mul(LoadVal(m, PtrAdd(weights_ptr, i + k)),
                                 Mul(LoadVal(m, PtrAdd(a_ptr, i + k)),
                                     LoadVal(m, PtrAdd(b_ptr, i + k)))))],
             rd \o <<i, i + 1, i + 2, i + 3>>)
    ELSE [i |-> i, sum |-> sum, rd |-> rd]

RECURSIVE dense_dot_mul_tail(_, _, _, _, _, _, _, _)
dense_dot_mul_tail(m, weights_ptr, a_ptr, b_ptr, len, i, total, rd) ==
    IF i < len
    THEN dense_dot_mul_tail(m, weights_ptr, a_ptr, b_ptr, len, i + 1,
             Add(total, Mul(LoadVal(m, PtrAdd(weights_ptr, i)),
                            Mul(LoadVal(m, PtrAdd(a_ptr, i)),
                                LoadVal(m, PtrAdd(b_ptr, i))))),
             Append(rd, i))
    ELSE [val |-> total, rd |-> rd]

dense_dot_mul(m, weights_ptr, a_ptr, b_ptr, len) ==
    LET v == dense_dot_mul_simd(m, weights_ptr, a_ptr, b_ptr, len, 0,
                                [k \in Lanes |-> 0], <<>>)
        total == Add(Add(Add(v.sum[0], v.sum[1]), v.sum[2]), v.sum[3])
        t == dense_dot_mul_tail(m, weights_ptr, a_ptr, b_ptr, len, v.i, total, v.rd)
    IN  [val |-> t.val, rd |-> DotRd({weights_ptr, a_ptr, b_ptr}, t.rd),
         dots |-> {[n |-> len, rd |-> t.rd]}]

\* ----------------------------------------------------------- dense_forward
\* Loops are recursive operators over a loop state s: the machine s.m and the
\* loop's own variables.
dense_out_limit(out_size, output_stride) ==
    IF out_size < output_stride THEN out_size ELSE output_stride

\* Mutant: the output row is not zeroed before the units are stored.
dense_zero_row_skipped(s, k, output_base) == s.m

RECURSIVE dense_zero_row(_, _, _)
dense_zero_row(s, k, output_base) ==
    IF s.o < k.output_stride
    THEN dense_zero_row([m |-> Store(s.m, PtrAdd(k.output_ptr, output_base + s.o), 0),
                         o |-> s.o + 1],
                        k, output_base)
    ELSE s.m

dense_unit(s, k, input_base, output_base) ==
    LET d == dense_dot(s.m, PtrAdd(k.weights_ptr, s.w_index),
                       PtrAdd(k.input_ptr, input_base), k.in_size)
        bp == PtrAdd(k.weights_ptr, s.w_index + k.in_size)
        bias == LoadVal(s.m, bp)
    IN  [m |-> Store(Log(s.m, d.rd \cup Rd(bp), d.dots),
                     PtrAdd(k.output_ptr, output_base + s.o),
                     Tanh(Add(d.val, bias))),
         o |-> s.o + 1,
         w_index |-> s.w_index + k.in_size + 1]

RECURSIVE dense_units(_, _, _, _)
dense_units(s, k, input_base, output_base) ==
    IF s.o < k.out_limit
    THEN dense_units(dense_unit(s, k, input_base, output_base), k, input_base, output_base)
    ELSE s.m

dense_row(m, k, b) ==
    LET input_base == b * k.input_stride
        output_base == b * k.output_stride
    IN  dense_units([m |-> dense_zero_row([m |-> m, o |-> 0], k, output_base),
                     o |-> 0, w_index |-> 0],
                    k, input_base, output_base)

RECURSIVE dense_batch(_, _)
\* Mutant: the row loop tests batch_count after the row, so row 0 always runs.
dense_batch_do_while(s, k) ==
    LET s1 == [m |-> dense_row(s.m, k, s.b), b |-> s.b + 1]
    IN  IF s1.b < k.batch_count THEN dense_batch(s1, k) ELSE s1.m

dense_batch(s, k) ==
    IF s.b < k.batch_count
    THEN dense_batch([m |-> dense_row(s.m, k, s.b), b |-> s.b + 1], k)
    ELSE s.m

dense_null_guard(weights_ptr, input_ptr, output_ptr) ==
    is_null(weights_ptr) \/ is_null(input_ptr) \/ is_null(output_ptr)

dense_forward(m, weights_ptr, input_ptr, output_ptr, in_size, out_size, batch_count, input_stride, output_stride) ==
    IF dense_null_guard(weights_ptr, input_ptr, output_ptr)
    THEN m
    ELSE dense_batch([m |-> m, b |-> 0],
             [weights_ptr |-> weights_ptr, input_ptr |-> input_ptr,
              output_ptr |-> output_ptr,
              in_size |-> to_usize(in_size),
              batch_count |-> to_usize(batch_count),
              input_stride |-> to_usize(input_stride),
              output_stride |-> to_usize(output_stride),
              out_limit |-> dense_out_limit(to_usize(out_size),
                                            to_usize(output_stride))])

\* ------------------------------------------------------------- mlp_forward
Min(a, b) == IF a < b THEN a ELSE b

RECURSIVE mlp_max_size(_, _, _, _, _)
mlp_max_size(m, layer_sizes_ptr, layer_count, l, max_size) ==
    IF l < layer_count
    THEN LET size == to_usize(LoadVal(m, PtrAdd(layer_sizes_ptr, l)))
         IN  mlp_max_size(m, layer_sizes_ptr, layer_count, l + 1,
                          IF size > max_size THEN size ELSE max_size)
    ELSE max_size

mlp_null_guard(weights_ptr, layer_sizes_ptr, input_ptr, output_ptr, scratch_ptr) ==
    \/ is_null(weights_ptr) \/ is_null(layer_sizes_ptr)
    \/ is_null(input_ptr) \/ is_null(output_ptr)
    \/ is_null(scratch_ptr)

mlp_count_guard(layer_count) == layer_count < 2

\* Mutant: scratch_len is compared with one half instead of both.
mlp_size_guard_one_half(max_size, scratch_len) ==
    max_size = 0 \/ scratch_len < max_size

mlp_size_guard(max_size, scratch_len) ==
    max_size = 0 \/ scratch_len < max_size * 2

\* scratch.split_at_mut(max_size)
mlp_split(scratch_ptr, scratch_len, max_size) ==
    [cur_buf |-> [ptr |-> scratch_ptr, len |-> max_size],
     next_buf |-> [ptr |-> PtrAdd(scratch_ptr, max_size),
                   len |-> scratch_len - max_size]]

\* dst[..n].copy_from_slice(src[..n]), and the enumerate().take(n) copy loop
RECURSIVE copy_slice(_, _, _, _)
copy_slice(s, src, dst, n) ==
    IF s.i < n
    THEN copy_slice([m |-> Copy(s.m, PtrAdd(src, s.i), PtrAdd(dst, s.i)), i |-> s.i + 1],
                    src, dst, n)
    ELSE s.m

mlp_unit(s, k, cur_buf, next_buf, ins) ==
    LET d == dense_dot(s.m, PtrAdd(k.weights_ptr, s.w_index), cur_buf.ptr, ins)
        bp == PtrAdd(k.weights_ptr, s.w_index + ins)
        bias == LoadVal(s.m, bp)
    IN  [m |-> Store(Log(s.m, d.rd \cup Rd(bp), d.dots),
                     PtrAdd(next_buf.ptr, s.o), Tanh(Add(d.val, bias))),
         o |-> s.o + 1,
         w_index |-> s.w_index + ins + 1]

RECURSIVE mlp_units(_, _, _, _, _, _)
mlp_units(s, k, cur_buf, next_buf, ins, n) ==
    IF s.o < n
    THEN mlp_units(mlp_unit(s, k, cur_buf, next_buf, ins), k, cur_buf, next_buf, ins, n)
    ELSE s

\* Mutant: the weight cursor is declared outside the row loop.
mlp_row_w_index_carried(b, w_index) == w_index

\* The weight cursor at the start of a batch row (let mut w_index = 0).
mlp_row_w_index(b, w_index) == 0

\* Mutant: the two halves are not swapped after the layer.
mlp_layer_no_swap(s, k) ==
    LET ins == to_usize(LoadVal(s.m, PtrAdd(k.layer_sizes_ptr, s.l)))
        outs == to_usize(LoadVal(s.m, PtrAdd(k.layer_sizes_ptr, s.l + 1)))
        u == mlp_units([m |-> s.m, o |-> 0, w_index |-> s.w_index],
                       k, s.cur_buf, s.next_buf, ins, Min(outs, s.next_buf.len))
    IN  [m |-> u.m, l |-> s.l + 1, w_index |-> u.w_index,
         cur_buf |-> s.cur_buf, next_buf |-> s.next_buf]

\* One layer: fill next_buf from cur_buf, then mem::swap(cur_buf, next_buf).
mlp_layer(s, k) ==
    LET ins == to_usize(LoadVal(s.m, PtrAdd(k.layer_sizes_ptr, s.l)))
        outs == to_usize(LoadVal(s.m, PtrAdd(k.layer_sizes_ptr, s.l + 1)))
        u == mlp_units([m |-> s.m, o |-> 0, w_index |-> s.w_index],
                       k, s.cur_buf, s.next_buf, ins, Min(outs, s.next_buf.len))
    IN  [m |-> u.m, l |-> s.l + 1, w_index |-> u.w_index,
         cur_buf |-> s.next_buf, next_buf |-> s.cur_buf]

RECURSIVE mlp_layers(_, _)
mlp_layers(s, k) ==
    IF s.l < k.layer_count - 1 THEN mlp_layers(mlp_layer(s, k), k) ELSE s

mlp_row(s, k) ==
    LET input_base == s.b * k.input_stride
        input_size == to_usize(LoadVal(s.m, k.layer_sizes_ptr))
        m1 == copy_slice([m |-> s.m, i |-> 0], PtrAdd(k.input_ptr, input_base),
                         s.cur_buf.ptr, input_size)
        ls == mlp_layers([m |-> m1, l |-> 0, w_index |-> mlp_row_w_index(s.b, s.w_index),
                          cur_buf |-> s.cur_buf, next_buf |-> s.next_buf], k)
        out_size == to_usize(LoadVal(s.m, PtrAdd(k.layer_sizes_ptr, k.layer_count - 1)))
        out_limit == dense_out_limit(out_size, k.output_stride)
        output_base == s.b * k.output_stride
        m2 == dense_zero_row([m |-> ls.m, o |-> 0], k, output_base)
    IN  [m |-> copy_slice([m |-> m2, i |-> 0], ls.cur_buf.ptr,
                          PtrAdd(k.output_ptr, output_base),
                          Min(out_limit, ls.cur_buf.len)),
         b |-> s.b + 1, w_index |-> ls.w_index,
         cur_buf |-> ls.cur_buf, next_buf |-> ls.next_buf]

RECURSIVE mlp_batch(_, _)
mlp_batch(s, k) ==
    IF s.b < k.batch_count THEN mlp_batch(mlp_row(s, k), k) ELSE s.m

mlp_forward(m, weights_ptr, layer_sizes_ptr, input_ptr, output_ptr, layer_count, batch_count, input_stride, output_stride, scratch_ptr, scratch_len) ==
    IF mlp_null_guard(weights_ptr, layer_sizes_ptr, input_ptr, output_ptr, scratch_ptr)
    THEN m
    ELSE IF mlp_count_guard(to_usize(layer_count))
    THEN m
    ELSE LET max_size == mlp_max_size(m, layer_sizes_ptr, to_usize(layer_count), 0, 0)
             sp == mlp_split(scratch_ptr, to_usize(scratch_len), max_size)
         IN  IF mlp_size_guard(max_size, to_usize(scratch_len))
             THEN m
             ELSE mlp_batch([m |-> m, b |-> 0, w_index |-> 0,
                             cur_buf |-> sp.cur_buf, next_buf |-> sp.next_buf],
                      [weights_ptr |-> weights_ptr,
                       layer_sizes_ptr |-> layer_sizes_ptr,
                       input_ptr |-> input_ptr, output_ptr |-> output_ptr,
                       layer_count |-> to_usize(layer_count),
                       batch_count |-> to_usize(batch_count),
                       input_stride |-> to_usize(input_stride),
                       output_stride |-> to_usize(output_stride)])

\* ---------------------------------------------------------- recurrent steps
\* Mutant: in_size is left out of the test.
rec_size_guard_no_in(in_size, hidden_size, batch_count) ==
    hidden_size = 0 \/ batch_count = 0

rec_size_guard(in_size, hidden_size, batch_count) ==
    in_size = 0 \/ hidden_size = 0 \/ batch_count = 0

\* Mutant: the U rows are multiplied with h itself, updated in place.
gate_hidden_ptr_in_place(k, state_base) == PtrAdd(k.h_ptr, state_base)

\* The vector a gate's U row is multiplied with: h_prev of the batch row.
gate_hidden_ptr(k, state_base) == PtrAdd(k.h_prev_ptr, state_base)

\* sum = dot(W row, input); sum += dot(U row, h_prev); sum += bias
gate_sum(m, k, input_base, state_base, w_row, u_row, b_idx) ==
    LET dw == dense_dot(m, PtrAdd(k.weights_ptr, w_row),
                        PtrAdd(k.input_ptr, input_base), k.in_size)
        du == dense_dot(m, PtrAdd(k.weights_ptr, u_row),
                        gate_hidden_ptr(k, state_base), k.hidden_size)
        bp == PtrAdd(k.weights_ptr, b_idx)
    IN  [sum |-> Add(Add(dw.val, du.val), LoadVal(m, bp)),
         rd |-> dw.rd \cup du.rd \cup Rd(bp),
         dots |-> dw.dots \cup du.dots]

\* for j in 0..hidden_size { h_prev[base + j] = h[base + j] }
RECURSIVE snapshot(_, _, _, _, _)
snapshot(s, src, dst, state_base, hidden_size) ==
    IF s.j < hidden_size
    THEN snapshot([m |-> Copy(s.m, PtrAdd(src, state_base + s.j),
                              PtrAdd(dst, state_base + s.j)),
                   j |-> s.j + 1],
                  src, dst, state_base, hidden_size)
    ELSE s.m

\* ----------------------------------------------------------------- gru_step
gru_layout(in_size, hidden_size) ==
    LET wsz == hidden_size * in_size
        usz == hidden_size * hidden_size
        wz == 0
        wr == wz + wsz
        wh == wr + wsz
        uz == wh + wsz
        ur == uz + usz
        uh == ur + usz
        bz == uh + usz
        br == bz + hidden_size
        bh == br + hidden_size
    IN  [wz |-> wz, wr |-> wr, wh |-> wh, uz |-> uz, ur |-> ur, uh |-> uh,
         bz |-> bz, br |-> br, bh |-> bh]

gru_gate(s, k, input_base, state_base) ==
    LET j == s.j
        wz_row == k.L.wz + j * k.in_size
        wr_row == k.L.wr + j * k.in_size
        uz_row == k.L.uz + j * k.hidden_size
        ur_row == k.L.ur + j * k.hidden_size
        sz == gate_sum(s.m, k, input_base, state_base, wz_row, uz_row, k.L.bz + j)
        sr == gate_sum(s.m, k, input_base, state_base, wr_row, ur_row, k.L.br + j)
        m1 == Store(Log(s.m, sz.rd \cup sr.rd, sz.dots \cup sr.dots),
                    PtrAdd(k.z_ptr, state_base + j), sigmoid(sz.sum))
    IN  [m |-> Store(m1, PtrAdd(k.r_ptr, state_base + j), sigmoid(sr.sum)),
         j |-> j + 1]

RECURSIVE gru_gates(_, _, _, _)
gru_gates(s, k, input_base, state_base) ==
    IF s.j < k.hidden_size
    THEN gru_gates(gru_gate(s, k, input_base, state_base), k, input_base, state_base)
    ELSE s.m

gru_unit(s, k, input_base, state_base) ==
    LET j == s.j
        wh_row == k.L.wh + j * k.in_size
        uh_row == k.L.uh + j * k.hidden_size
        d1 == dense_dot(s.m, PtrAdd(k.weights_ptr, wh_row),
                        PtrAdd(k.input_ptr, input_base), k.in_size)
        d2 == dense_dot_mul(s.m, PtrAdd(k.weights_ptr, uh_row),
                            PtrAdd(k.r_ptr, state_base),
                            gate_hidden_ptr(k, state_base), k.hidden_size)
        bp == PtrAdd(k.weights_ptr, k.L.bh + j)
        sum_h == Add(Add(d1.val, d2.val), LoadVal(s.m, bp))
        h_tilde == Tanh(sum_h)
        zp == PtrAdd(k.z_ptr, state_base + j)
        pp == PtrAdd(k.h_prev_ptr, state_base + j)
        z_val == LoadVal(s.m, zp)
        prev_h == LoadVal(s.m, pp)
    IN  [m |-> Store(Log(s.m, d1.rd \cup d2.rd \cup Rd(bp) \cup Rd(zp) \cup Rd(pp),
                         d1.dots \cup d2.dots),
                     PtrAdd(k.h_ptr, state_base + j),
                     Add(Mul(Sub(1, z_val), prev_h), Mul(z_val, h_tilde))),
         j |-> j + 1]

RECURSIVE gru_units(_, _, _, _)
gru_units(s, k, input_base, state_base) ==
    IF s.j < k.hidden_size
    THEN gru_units(gru_unit(s, k, input_base, state_base), k, input_base, state_base)
    ELSE s.m

gru_row(m, k, b) ==
    LET input_base == b * k.input_stride
        state_base == b * k.hidden_size
        m1 == snapshot([m |-> m, j |-> 0], k.h_ptr, k.h_prev_ptr, state_base, k.hidden_size)
        m2 == gru_gates([m |-> m1, j |-> 0], k, input_base, state_base)
    IN  gru_units([m |-> m2, j |-> 0], k, input_base, state_base)

RECURSIVE gru_batch(_, _)
gru_batch(s, k) ==
    IF s.b < k.batch_count
    THEN gru_batch([m |-> gru_row(s.m, k, s.b), b |-> s.b + 1], k)
    ELSE s.m

gru_null_guard(weights_ptr, input_ptr, h_ptr, z_ptr, r_ptr, h_prev_ptr) ==
    \/ is_null(weights_ptr) \/ is_null(input_ptr) \/ is_null(h_ptr)
    \/ is_null(z_ptr) \/ is_null(r_ptr) \/ is_null(h_prev_ptr)

gru_step(m, weights_ptr, input_ptr, h_ptr, z_ptr, r_ptr, h_prev_ptr, in_size, hidden_size, batch_count, input_stride) ==
    IF gru_null_guard(weights_ptr, input_ptr, h_ptr, z_ptr, r_ptr, h_prev_ptr)
    THEN m
    ELSE IF rec_size_guard(to_usize(in_size), to_usize(hidden_size), to_usize(batch_count))
    THEN m
    ELSE gru_batch([m |-> m, b |-> 0],
             [weights_ptr |-> weights_ptr, input_ptr |-> input_ptr,
              h_ptr |-> h_ptr, z_ptr |-> z_ptr, r_ptr |-> r_ptr,
              h_prev_ptr |-> h_prev_ptr,
              in_size |-> to_usize(in_size),
              hidden_size |-> to_usize(hidden_size),
              batch_count |-> to_usize(batch_count),
              input_stride |-> to_usize(input_stride),
              L |-> gru_layout(to_usize(in_size), to_usize(hidden_size))])

\* ---------------------------------------------------------------- lstm_step
\* Mutant: the blocks are taken in the order i, f, g, o.
lstm_layout_ifgo(in_size, hidden_size) ==
    LET wsz == hidden_size * in_size
        usz == hidden_size * hidden_size
        wi == 0
        wf == wi + wsz
        wg == wf + wsz
        wo == wg + wsz
        ui == wo + wsz
        uf == ui + usz
        ug == uf + usz
        uo == ug + usz
        bi == uo + usz
        bf == bi + hidden_size
        bg == bf + hidden_size
        bo == bg + hidden_size
    IN  [wi |-> wi, wf |-> wf, wo |-> wo, wg |-> wg,
         ui |-> ui, uf |-> uf, uo |-> uo, ug |-> ug,
         bi |-> bi, bf |-> bf, bo |-> bo, bg |-> bg]

lstm_layout(in_size, hidden_size) ==
    LET wsz == hidden_size * in_size
        usz == hidden_size * hidden_size
        wi == 0
        wf == wi + wsz
        wo == wf + wsz
        wg == wo + wsz
        ui == wg + wsz
        uf == ui + usz
        uo == uf + usz
        ug == uo + usz
        bi == ug + usz
        bf == bi + hidden_size
        bo == bf + hidden_size
        bg == bo + hidden_size
    IN  [wi |-> wi, wf |-> wf, wo |-> wo, wg |-> wg,
         ui |-> ui, uf |-> uf, uo |-> uo, ug |-> ug,
         bi |-> bi, bf |-> bf, bo |-> bo, bg |-> bg]

\* for j { h_prev[base + j] = h[base + j]; c_prev[base + j] = c[base + j] }
RECURSIVE lstm_snapshot(_, _, _)
lstm_snapshot(s, k, state_base) ==
    IF s.j < k.hidden_size
    THEN lstm_snapshot(
             [m |-> Copy(Copy(s.m, PtrAdd(k.h_ptr, state_base + s.j),
                              PtrAdd(k.h_prev_ptr, state_base + s.j)),
                         PtrAdd(k.c_ptr, state_base + s.j),
                         PtrAdd(k.c_prev_ptr, state_base + s.j)),
              j |-> s.j + 1],
             k, state_base)
    ELSE s.m

lstm_unit(s, k, input_base, state_base) ==
    LET j == s.j
        si == gate_sum(s.m, k, input_base, state_base,
                       k.L.wi + j * k.in_size, k.L.ui + j * k.hidden_size, k.L.bi + j)
        sf == gate_sum(s.m, k, input_base, state_base,
                       k.L.wf + j * k.in_size, k.L.uf + j * k.hidden_size, k.L.bf + j)
        so == gate_sum(s.m, k, input_base, state_base,
                       k.L.wo + j * k.in_size, k.L.uo + j * k.hidden_size, k.L.bo + j)
        sg == gate_sum(s.m, k, input_base, state_base,
                       k.L.wg + j * k.in_size, k.L.ug + j * k.hidden_size, k.L.bg + j)
        i_gate == sigmoid(si.sum)
        f_gate == sigmoid(sf.sum)
        o_gate == sigmoid(so.sum)
        g_gate == Tanh(sg.sum)
        cp == PtrAdd(k.c_prev_ptr, state_base + j)
        prev_c == LoadVal(s.m, cp)
        next_c == Add(Mul(f_gate, prev_c), Mul(i_gate, g_gate))
        m1 == Store(Log(s.m, si.rd \cup sf.rd \cup so.rd \cup sg.rd \cup Rd(cp),
                        si.dots \cup sf.dots \cup so.dots \cup sg.dots),
                    PtrAdd(k.c_ptr, state_base + j), next_c)
    IN  [m |-> Store(m1, PtrAdd(k.h_ptr, state_base + j), Mul(o_gate, Tanh(next_c))),
         j |-> j + 1]

RECURSIVE lstm_units(_, _, _, _)
lstm_units(s, k, input_base, state_base) ==
    IF s.j < k.hidden_size
    THEN lstm_units(lstm_unit(s, k, input_base, state_base), k, input_base, state_base)
    ELSE s.m

lstm_row(m, k, b) ==
    LET input_base == b * k.input_stride
        state_base == b * k.hidden_size
        m1 == lstm_snapshot([m |-> m, j |-> 0], k, state_base)
    IN  lstm_units([m |-> m1, j |-> 0], k, input_base, state_base)

RECURSIVE lstm_batch(_, _)
lstm_batch(s, k) ==
    IF s.b < k.batch_count
    THEN lstm_batch([m |-> lstm_row(s.m, k, s.b), b |-> s.b + 1], k)
    ELSE s.m

\* Mutant: the last pointer of the list is not tested.
lstm_null_guard_short(weights_ptr, input_ptr, h_ptr, c_ptr, h_prev_ptr, c_prev_ptr) ==
    \/ is_null(weights_ptr) \/ is_null(input_ptr) \/ is_null(h_ptr)
    \/ is_null(c_ptr) \/ is_null(h_prev_ptr)

lstm_null_guard(weights_ptr, input_ptr, h_ptr, c_ptr, h_prev_ptr, c_prev_ptr) ==
    \/ is_null(weights_ptr) \/ is_null(input_ptr) \/ is_null(h_ptr)
    \/ is_null(c_ptr) \/ is_null(h_prev_ptr) \/ is_null(c_prev_ptr)

lstm_step(m, weights_ptr, input_ptr, h_ptr, c_ptr, h_prev_ptr, c_prev_ptr, in_size, hidden_size, batch_count, input_stride) ==
    IF lstm_null_guard(weights_ptr, input_ptr, h_ptr, c_ptr, h_prev_ptr, c_prev_ptr)
    THEN m
    ELSE IF rec_size_guard(to_usize(in_size), to_usize(hidden_size), to_usize(batch_count))
    THEN m
    ELSE lstm_batch([m |-> m, b |-> 0],
             [weights_ptr |-> weights_ptr, input_ptr |-> input_ptr,
              h_ptr |-> h_ptr, c_ptr |-> c_ptr,
              h_prev_ptr |-> h_prev_ptr, c_prev_ptr |-> c_prev_ptr,
              in_size |-> to_usize(in_size),
              hidden_size |-> to_usize(hidden_size),
              batch_count |-> to_usize(batch_count),
              input_stride |-> to_usize(input_stride),
              L |-> lstm_layout(to_usize(in_size), to_usize(hidden_size))])

\* ----------------------------------------------------------------- rru_step
rru_layout(in_size, hidden_size) ==
    LET wsz == hidden_size * in_size
        usz == hidden_size * hidden_size
        wc == 0
        wr == wc + wsz
        uc == wr + wsz
        ur == uc + usz
        bc == ur + usz
        br == bc + hidden_size
    IN  [wc |-> wc, wr |-> wr, uc |-> uc, ur |-> ur, bc |-> bc, br |-> br]

rru_unit(s, k, input_base, state_base) ==
    LET j == s.j
        sc == gate_sum(s.m, k, input_base, state_base,
                       k.L.wc + j * k.in_size, k.L.uc + j * k.hidden_size, k.L.bc + j)
        sr == gate_sum(s.m, k, input_base, state_base,
                       k.L.wr + j * k.in_size, k.L.ur + j * k.hidden_size, k.L.br + j)
        cand == Tanh(sc.sum)
        gate == sigmoid(sr.sum)
        pp == PtrAdd(k.h_prev_ptr, state_base + j)
        prev == LoadVal(s.m, pp)
    IN  [m |-> Store(Log(s.m, sc.rd \cup sr.rd \cup Rd(pp), sc.dots \cup sr.dots),
                     PtrAdd(k.h_ptr, state_base + j),
                     Add(Mul(Sub(1, gate), prev), Mul(gate, cand))),
         j |-> j + 1]

RECURSIVE rru_units(_, _, _, _)
rru_units(s, k, input_base, state_base) ==
    IF s.j < k.hidden_size
    THEN rru_units(rru_unit(s, k, input_base, state_base), k, input_base, state_base)
    ELSE s.m

rru_row(m, k, b) ==
    LET input_base == b * k.input_stride
        state_base == b * k.hidden_size
        m1 == snapshot([m |-> m, j |-> 0], k.h_ptr, k.h_prev_ptr, state_base, k.hidden_size)
    IN  rru_units([m |-> m1, j |-> 0], k, input_base, state_base)

RECURSIVE rru_batch(_, _)
rru_batch(s, k) ==
    IF s.b < k.batch_count
    THEN rru_batch([m |-> rru_row(s.m, k, s.b), b |-> s.b + 1], k)
    ELSE s.m

rru_null_guard(weights_ptr, input_ptr, h_ptr, h_prev_ptr) ==
    is_null(weights_ptr) \/ is_null(input_ptr) \/ is_null(h_ptr) \/ is_null(h_prev_ptr)

rru_step(m, weights_ptr, input_ptr, h_ptr, h_prev_ptr, in_size, hidden_size, batch_count, input_stride) ==
    IF rru_null_guard(weights_ptr, input_ptr, h_ptr, h_prev_ptr)
    THEN m
    ELSE IF rec_size_guard(to_usize(in_size), to_usize(hidden_size), to_usize(batch_count))
    THEN m
    ELSE rru_batch([m |-> m, b |-> 0],
             [weights_ptr |-> weights_ptr, input_ptr |-> input_ptr,
              h_ptr |-> h_ptr, h_prev_ptr |-> h_prev_ptr,
              in_size |-> to_usize(in_size),
              hidden_size |-> to_usize(hidden_size),
              batch_count |-> to_usize(batch_count),
              input_stride |-> to_usize(input_stride),
              L |-> rru_layout(to_usize(in_size), to_usize(hidden_size))])

\* ==================================================================== state
\* entry : the entry point the host calls on the buffers it prepared
\* args  : the arguments the host passes (pointers, sizes, strides, counts)
\* mem   : the host-owned buffers, with the access log of the last call
\* pre   : mem as it was when the last call was entered
\* ncalls: number of calls made so far
VARIABLES entry, args, mem, pre, ncalls

vars == <<entry, args, mem, pre, ncalls>>

Max(a, b) == IF a > b THEN a ELSE b

Seeds == 0 .. MaxSeed
InSizes == {-1, 0, 1, MaxIn}
OutSizes == {-1} \cup (0 .. MaxOut)
HiddenSizes == {-1, 0, 1, MaxHidden}
BatchCounts == {-1} \cup (0 .. MaxBatch)
InStrides == {-1, 1, MaxIn + 1}
OutStrides == {-1} \cup (0 .. (MaxOut + 1))
LayerCounts == {-1} \cup (0 .. MaxLayers)
LayerWidths == {-1, 1, MaxWidth}
MlpBatchCounts == {-1, 1, MaxBatch}
MlpInStrides == {-1, MaxWidth + 1}
MlpOutStrides == {-1, 1, MaxWidth + 1}

PtrArgs(e) ==
    CASE e = "dense_forward" -> {"weights", "input", "output"}
      [] e = "mlp_forward" -> {"weights", "layer_sizes", "input", "output", "scratch"}
      [] e = "gru_step" -> {"weights", "input", "h", "z", "r", "h_prev"}
      [] e = "lstm_step" -> {"weights", "input", "h", "c", "h_prev", "c_prev"}
      [] e = "rru_step" -> {"weights", "input", "h", "h_prev"}

\* The buffers a kernel may write.
Mutable == {"output", "scratch", "h", "c", "z", "r", "h_prev", "c_prev"}

\* Buffer extents: what the largest arguments of the entry point need, plus
\* Spare elements past the end.
Spare == 2
RecWeights == 4 * (MaxHidden * MaxIn + MaxHidden * MaxHidden + MaxHidden)
WeightsLen(e) ==
    Spare + (CASE e = "dense_forward" -> MaxOut * (MaxIn + 1)
               [] e = "mlp_forward" ->
                      MaxBatch * (MaxLayers - 1) * MaxWidth * (MaxWidth + 1)
               [] OTHER -> RecWeights)
InputLen(e) ==
    Spare + (IF e = "mlp_forward" THEN MaxBatch * (MaxWidth + 1)
                                  ELSE MaxBatch * (MaxIn + 1))
OutputLen(e) ==
    Spare + (IF e = "mlp_forward" THEN MaxBatch * (MaxWidth + 1)
                                  ELSE MaxBatch * (MaxOut + 1))
ScratchLen == Spare + 2 * MaxWidth + 1
StateLen == Spare + MaxHidden * MaxBatch

Fill(len, a, b, seed) ==
    [i \in 0 .. (len - 1) |-> (a * i * i + b * i + 1 + seed) % Modulus]

\* The host's memory before the first call: the buffers of the entry point it
\* is going to call, holding arbitrary values.
HostMem(e, seed, layer_sizes) ==
    LET On(b, f) == IF b \in PtrArgs(e) THEN f ELSE <<>>
    IN  [null |-> Fill(WeightsLen(e), 0, 31, 20 + seed),
         weights |-> Fill(WeightsLen(e), 1, 3, seed),
         layer_sizes |-> layer_sizes,
         input |-> Fill(InputLen(e), 0, 7, 3 * seed),
         output |-> On("output", Fill(OutputLen(e), 0, 11, 5 + seed)),
         scratch |-> On("scratch", Fill(ScratchLen, 0, 13, 8 + seed)),
         h |-> On("h", Fill(StateLen, 2, 5, 2 + seed)),
         c |-> On("c", Fill(StateLen, 3, 1, 4 + seed)),
         z |-> On("z", Fill(StateLen, 0, 17, 6 + seed)),
         r |-> On("r", Fill(StateLen, 0, 19, 9 + seed)),
         h_prev |-> On("h_prev", Fill(StateLen, 0, 23, 12 + seed)),
         c_prev |-> On("c_prev", Fill(StateLen, 0, 29, 15 + seed)),
         rd |-> {}, wr |-> {}, dots |-> {}]

\* The contents of the writable buffers, as kept in pre.
Contents(m) == [b \in Mutable |-> m[b]]

\* The argument record: one pointer per buffer (NULL when the host passes
\* null), and every size, stride and count of the five signatures.
ArgPtr(b, null) == IF b = null THEN NULL ELSE Ptr(b)

HostArgs(null, sz) ==
    [weights_ptr |-> ArgPtr("weights", null),
     layer_sizes_ptr |-> ArgPtr("layer_sizes", null),
     input_ptr |-> ArgPtr("input", null),
     output_ptr |-> ArgPtr("output", null),
     scratch_ptr |-> ArgPtr("scratch", null),
     h_ptr |-> ArgPtr("h", null),
     c_ptr |-> ArgPtr("c", null),
     z_ptr |-> ArgPtr("z", null),
     r_ptr |-> ArgPtr("r", null),
     h_prev_ptr |-> ArgPtr("h_prev", null),
     c_prev_ptr |-> ArgPtr("c_prev", null),
     in_size |-> sz.in_size, out_size |-> sz.out_size,
     hidden_size |-> sz.hidden_size, layer_count |-> sz.layer_count,
     batch_count |-> sz.batch_count, input_stride |-> sz.input_stride,
     output_stride |-> sz.output_stride, scratch_len |-> sz.scratch_len]

NoSizes ==
    [in_size |-> 0, out_size |-> 0, hidden_size |-> 0, layer_count |-> 0,
     batch_count |-> 0, input_stride |-> 0, output_stride |-> 0, scratch_len |-> 0]

NullChoices(e) == {"none"} \cup PtrArgs(e)

InitWith(e, null, sz, seed, layer_sizes) ==
    /\ entry = e
    /\ args = HostArgs(null, sz)
    /\ mem = HostMem(e, seed, layer_sizes)
    /\ pre = Contents(mem)
    /\ ncalls = 0

InitDense ==
    \E null \in NullChoices("dense_forward"), seed \in Seeds,
       in_size \in InSizes, out_size \in OutSizes, batch_count \in BatchCounts,
       input_stride \in InStrides, output_stride \in OutStrides :
        InitWith("dense_forward", null,
                 [NoSizes EXCEPT !.in_size = in_size, !.out_size = out_size,
                                 !.batch_count = batch_count,
                                 !.input_stride = input_stride,
                                 !.output_stride = output_stride],
                 seed, <<>>)

\* layer_sizes as the host lays it out: layer_count entries, indexed from 0.
LayerSizeBufs(layer_count) ==
    [(0 .. (to_usize(layer_count) - 1)) -> LayerWidths]

MaxOf(f) == IF DOMAIN f = {} THEN 0
            ELSE Max(0, CHOOSE x \in {f[i] : i \in DOMAIN f} :
                            \A y \in {f[i] : i \in DOMAIN f} : y <= x)

InitMlp ==
    \E null \in NullChoices("mlp_forward"), seed \in Seeds,
       layer_count \in LayerCounts, batch_count \in MlpBatchCounts,
       input_stride \in MlpInStrides, output_stride \in MlpOutStrides,
       slack \in {-1, 0} :
        \E layer_sizes \in LayerSizeBufs(layer_count) :
            InitWith("mlp_forward", null,
                     [NoSizes EXCEPT !.layer_count = layer_count,
                                     !.batch_count = batch_count,
                                     !.input_stride = input_stride,
                                     !.output_stride = output_stride,
                                     !.scratch_len = 2 * MaxOf(layer_sizes) + slack],
                     seed, layer_sizes)

InitRec ==
    \E e \in {"gru_step", "lstm_step", "rru_step"} :
        \E null \in NullChoices(e), seed \in Seeds,
           in_size \in InSizes, hidden_size \in HiddenSizes,
           batch_count \in BatchCounts, input_stride \in InStrides :
            InitWith(e, null,
                     [NoSizes EXCEPT !.in_size = in_size,
                                     !.hidden_size = hidden_size,
                                     !.batch_count = batch_count,
                                     !.input_stride = input_stride],
                     seed, <<>>)

Init == InitDense \/ InitMlp \/ InitRec

\* A call starts with an empty access log.
Enter(m) == [m EXCEPT !.rd = {}, !.wr = {}, !.dots = {}]

Call(e, result) ==
    /\ entry = e
    /\ ncalls < MaxCalls
    /\ pre' = Contents(mem)
    /\ mem' = result
    /\ ncalls' = ncalls + 1
    /\ UNCHANGED <<entry, args>>

DenseForward ==
    Call("dense_forward",
         dense_forward(Enter(mem), args.weights_ptr, args.input_ptr, args.output_ptr,
                       args.in_size, args.out_size, args.batch_count,
                       args.input_stride, args.output_stride))

MlpForward ==
    Call("mlp_forward",
         mlp_forward(Enter(mem), args.weights_ptr, args.layer_sizes_ptr,
                     args.input_ptr, args.output_ptr, args.layer_count,
                     args.batch_count, args.input_stride, args.output_stride,
                     args.scratch_ptr, args.scratch_len))

GruStep ==
    Call("gru_step",
         gru_step(Enter(mem), args.weights_ptr, args.input_ptr, args.h_ptr,
                  args.z_ptr, args.r_ptr, args.h_prev_ptr, args.in_size,
                  args.hidden_size, args.batch_count, args.input_stride))

LstmStep ==
    Call("lstm_step",
         lstm_step(Enter(mem), args.weights_ptr, args.input_ptr, args.h_ptr,
                   args.c_ptr, args.h_prev_ptr, args.c_prev_ptr, args.in_size,
                   args.hidden_size, args.batch_count, args.input_stride))

RruStep ==
    Call("rru_step",
         rru_step(Enter(mem), args.weights_ptr, args.input_ptr, args.h_ptr,
                  args.h_prev_ptr, args.in_size, args.hidden_size,
                  args.batch_count, args.input_stride))

NextDense == DenseForward
NextMlp == MlpForward
NextRec == GruStep \/ LstmStep \/ RruStep
Next == DenseForward \/ MlpForward \/ GruStep \/ LstmStep \/ RruStep

Spec == Init /\ [][Next]_vars
SpecDense == InitDense /\ [][NextDense]_vars
SpecMlp == InitMlp /\ [][NextMlp]_vars
SpecRec == InitRec /\ [][NextRec]_vars

\* ================================================================== claims
Called == ncalls > 0

\* The pointer the host passed for buffer b.
ArgOf(b) ==
    CASE b = "weights" -> args.weights_ptr
      [] b = "layer_sizes" -> args.layer_sizes_ptr
      [] b = "input" -> args.input_ptr
      [] b = "output" -> args.output_ptr
      [] b = "scratch" -> args.scratch_ptr
      [] b = "h" -> args.h_ptr
      [] b = "c" -> args.c_ptr
      [] b = "z" -> args.z_ptr
      [] b = "r" -> args.r_ptr
      [] b = "h_prev" -> args.h_prev_ptr
      [] b = "c_prev" -> args.c_prev_ptr

SomeNull == \E b \in PtrArgs(entry) : ArgOf(b) = NULL
NoNull == ~SomeNull

\* The last call left every writable buffer as it found it and stored nothing.
NoOp == Contents(mem) = pre /\ mem.wr = {}

Recurrent == entry \in {"gru_step", "lstm_step", "rru_step"}

\* Sizes as the kernels see them.
InSize == to_usize(args.in_size)
OutSize == to_usize(args.out_size)
HiddenSize == to_usize(args.hidden_size)
BatchCount == to_usize(args.batch_count)
InputStride == to_usize(args.input_stride)
OutputStride == to_usize(args.output_stride)
LayerCount == to_usize(args.layer_count)

\* Plain sum of w[wo + i] * x[xo + i] over i in [0, n), in index order.
RECURSIVE RefDot(_, _, _, _, _)
RefDot(w, wo, x, xo, n) ==
    IF n = 0 THEN 0
    ELSE Add(RefDot(w, wo, x, xo, n - 1), Mul(w[wo + n - 1], x[xo + n - 1]))

\* C1: a call of any of the five entry points with one pointer argument null
\* returns, and leaves every output, state and scratch buffer with its
\* pre-call contents (nothing is stored at all), whatever the sizes are.
C1_NullIsNoOp == (Called /\ SomeNull) => NoOp

C1_Witness ==
    /\ Called /\ entry = "lstm_step" /\ args.c_prev_ptr = NULL
    /\ args.in_size > 0 /\ args.hidden_size > 0 /\ args.batch_count > 0
    /\ NoOp

\* C2: after dense_forward with non-null pointers, in every batch row b the
\* units o < out_limit = min(out_size, output_stride) hold
\* tanh(dot(row o of weights, input row b) + bias o) and the slots from
\* out_limit up to output_stride hold exactly 0, whatever output held before.
DenseExpected(b, o) ==
    IF o < Min(OutSize, OutputStride)
    THEN Tanh(Add(RefDot(mem.weights, o * (InSize + 1),
                         mem.input, b * InputStride, InSize),
                  mem.weights[o * (InSize + 1) + InSize]))
    ELSE 0

C2_DenseResult ==
    (Called /\ entry = "dense_forward" /\ NoNull) =>
        \A b \in 0 .. (BatchCount - 1), o \in 0 .. (OutputStride - 1) :
            mem.output[b * OutputStride + o] = DenseExpected(b, o)

C2_Witness ==
    /\ Called /\ entry = "dense_forward" /\ NoNull
    /\ args.batch_count = MaxBatch /\ args.in_size = MaxIn
    /\ args.out_size = MaxOut - 1 /\ args.output_stride = MaxOut + 1
    /\ mem.output[OutputStride + MaxOut] = 0
    /\ pre.output[OutputStride + MaxOut] # 0
    /\ mem.output[OutputStride] = DenseExpected(1, 0)

\* C8 as stated: dense_forward with non-null pointers and in_size <= 0 or
\* batch_count <= 0 writes no element of the output buffer.
C8_DenseZeroSizeIsNoOp ==
    (Called /\ entry = "dense_forward" /\ NoNull
        /\ (args.in_size <= 0 \/ args.batch_count <= 0)) => NoOp

\* C8 amended: dense_forward with non-null pointers is a whole-call no-op
\* when batch_count <= 0 (or output_stride <= 0); with in_size <= 0 alone it
\* is not: every row b < batch_count is written, unit o < out_limit holding
\* tanh(bias o) and the rest of the row 0.
C8_DenseZeroSize ==
    (Called /\ entry = "dense_forward" /\ NoNull) =>
        /\ (args.batch_count <= 0 \/ args.output_stride <= 0) => NoOp
        /\ (args.in_size <= 0 /\ args.batch_count > 0 /\ args.output_stride > 0) =>
              /\ {w[2] : w \in {x \in mem.wr : x[1] = "output"}}
                     = 0 .. (BatchCount * OutputStride - 1)
              /\ \A b \in 0 .. (BatchCount - 1), o \in 0 .. (OutputStride - 1) :
                     mem.output[b * OutputStride + o] =
                         IF o < Min(OutSize, OutputStride)
                         THEN Tanh(mem.weights[o]) ELSE 0

C8_Witness ==
    /\ Called /\ entry = "dense_forward" /\ NoNull
    /\ args.in_size = 0 /\ args.batch_count = MaxBatch
    /\ args.out_size = MaxOut /\ args.output_stride = MaxOut
    /\ ~NoOp
    /\ mem.output[MaxOut] = Tanh(mem.weights[0])

\* ------------------------------------------------------------ mlp claims
Mlp == Called /\ entry = "mlp_forward" /\ NoNull

MaxWidthOf == MaxOf(mem.layer_sizes)
ScratchLenArg == to_usize(args.scratch_len)
OutputWrites == {x[2] : x \in {y \in mem.wr : y[1] = "output"}}

\* C3: mlp_forward with non-null pointers leaves output and scratch as they
\* were (and stores nothing) when layer_count < 2, or every layer size is
\* <= 0, or scratch_len < 2 * max(layer sizes); when none of the three holds
\* and batch_count and output_stride are positive, it writes the output
\* rows: exactly the indices below batch_count * output_stride.
C3_MlpGuards ==
    Mlp =>
        IF \/ LayerCount < 2
           \/ MaxWidthOf = 0
           \/ ScratchLenArg < 2 * MaxWidthOf
        THEN NoOp
        ELSE (args.batch_count > 0 /\ args.output_stride > 0) =>
                 OutputWrites = 0 .. (BatchCount * OutputStride - 1)

C3_Witness ==
    /\ Mlp /\ LayerCount = MaxLayers /\ MaxWidthOf = MaxWidth
    /\ ScratchLenArg = 2 * MaxWidth - 1
    /\ args.batch_count > 0 /\ args.output_stride > 0
    /\ NoOp

\* The two chained dense_forward calls of a two-layer network, run on the
\* pre-call output with a zeroed tmp of batch_count rows of n1 elements.
TwoLayers == Mlp /\ LayerCount = 3 /\ ScratchLenArg >= 2 * MaxWidthOf

ChainMem ==
    [null |-> mem.null, weights |-> mem.weights, input |-> mem.input,
     output |-> pre.output, tmp |-> [i \in 0 .. (MaxBatch * MaxWidth - 1) |-> 0],
     rd |-> {}, wr |-> {}, dots |-> {}]

DenseChain ==
    LET n0 == mem.layer_sizes[0]
        n1 == mem.layer_sizes[1]
        n2 == mem.layer_sizes[2]
        second == to_usize(n1) * (to_usize(n0) + 1)
        m1 == dense_forward(ChainMem, Ptr("weights"), Ptr("input"), Ptr("tmp"),
                            n0, n1, args.batch_count, args.input_stride, n1)
    IN  dense_forward(m1, PtrAdd(Ptr("weights"), second), Ptr("tmp"), Ptr("output"),
                      n1, n2, args.batch_count, n1, args.output_stride)

\* C4 as stated: for any layer sizes (n0, n1, n2), batch_count and strides,
\* with sufficient scratch, mlp_forward leaves in output what the two
\* chained dense_forward calls leave there.
C4_TwoLayerIsDenseChain == TwoLayers => mem.output = DenseChain.output

\* C4 amended: the same, provided at least one of n0, n1, n2 is positive
\* (with every size <= 0 mlp_forward returns before touching output, while
\* the dense chain still zeroes the output rows).
C4_TwoLayerIsDenseChainWhenWide ==
    (TwoLayers /\ MaxWidthOf > 0) => mem.output = DenseChain.output

C4_Witness ==
    /\ TwoLayers
    /\ mem.layer_sizes[0] = MaxWidth /\ mem.layer_sizes[1] = MaxWidth
    /\ mem.layer_sizes[2] = 1
    /\ args.batch_count = MaxBatch /\ args.output_stride = MaxWidth + 1
    /\ mem.output = DenseChain.output
    /\ mem.output # pre.output

\* A call of mlp_forward on input row b and output row b alone
\* (batch_count = 1), on the pre-call output and a zeroed scratch.
SingleRow(b) ==
    mlp_forward([Enter(mem) EXCEPT !.output = pre.output,
                                    !.scratch = [i \in DOMAIN pre.scratch |-> 0]],
                args.weights_ptr, args.layer_sizes_ptr,
                PtrAdd(args.input_ptr, b * InputStride),
                PtrAdd(args.output_ptr, b * OutputStride),
                args.layer_count, 1, args.input_stride, args.output_stride,
                args.scratch_ptr, args.scratch_len)

\* C10: for every layer count >= 2 and every row b < batch_count, output
\* row b of the batched call equals the output row written by a
\* batch_count = 1 call on input row b with the same weights and a
\* different (zeroed) scratch.
C10_RowsIndependent ==
    Mlp =>
        \A b \in 0 .. (BatchCount - 1), o \in 0 .. (OutputStride - 1) :
            mem.output[b * OutputStride + o] =
                SingleRow(b).output[b * OutputStride + o]

C10_Witness ==
    /\ Mlp /\ LayerCount = MaxLayers
    /\ \A l \in 0 .. (MaxLayers - 1) : mem.layer_sizes[l] = MaxWidth
    /\ args.batch_count = MaxBatch /\ args.output_stride = MaxWidth + 1
    /\ ScratchLenArg = 2 * MaxWidth
    /\ mem.output[OutputStride] = SingleRow(1).output[OutputStride]
    /\ mem.output[OutputStride] # mem.output[0]
    /\ mem.output[OutputStride] # pre.output[OutputStride]

\* ------------------------------------------------------ recurrent claims
\* A step that passed both guards.
Stepped ==
    /\ Called /\ Recurrent /\ NoNull
    /\ args.in_size > 0 /\ args.hidden_size > 0 /\ args.batch_count > 0

\* Number of gates: the blob is G blocks of W, G blocks of U, G blocks of b.
Gates == CASE entry = "gru_step" -> 3
           [] entry = "lstm_step" -> 4
           [] OTHER -> 2

WRow(g, j) == g * HiddenSize * InSize + j * InSize
URow(g, j) == Gates * HiddenSize * InSize + g * HiddenSize * HiddenSize + j * HiddenSize
BIdx(g, j) == Gates * HiddenSize * (InSize + HiddenSize) + g * HiddenSize + j

\* Pre-activation of gate g of unit j in row b, over the hidden vector hv:
\* W_g[j] . x_b + U_g[j] . hv_b + b_g[j].
RefGate(g, b, j, hv) ==
    Add(Add(RefDot(mem.weights, WRow(g, j), mem.input, b * InputStride, InSize),
            RefDot(mem.weights, URow(g, j), hv, b * HiddenSize, HiddenSize)),
        mem.weights[BIdx(g, j)])

\* Sum over k < n of w[wo + k] * a[xo + k] * x[xo + k].
RECURSIVE RefDotMul(_, _, _, _, _, _)
RefDotMul(w, wo, a, x, xo, n) ==
    IF n = 0 THEN 0
    ELSE Add(RefDotMul(w, wo, a, x, xo, n - 1),
             Mul(w[wo + n - 1], Mul(a[xo + n - 1], x[xo + n - 1])))

StateIdx == 0 .. (BatchCount * HiddenSize - 1)
Row(i) == i \div HiddenSize
Unit(i) == i % HiddenSize

\* The GRU equations over the hidden vector hv.
GruZ(hv) == [i \in StateIdx |-> sigmoid(RefGate(0, Row(i), Unit(i), hv))]
GruR(hv) == [i \in StateIdx |-> sigmoid(RefGate(1, Row(i), Unit(i), hv))]
GruH(hv) ==
    LET z == GruZ(hv)
        r == GruR(hv)
    IN  [i \in StateIdx |->
            LET b == Row(i)
                j == Unit(i)
                h_tilde ==
                    Tanh(Add(Add(RefDot(mem.weights, WRow(2, j),
                                        mem.input, b * InputStride, InSize),
                                 RefDotMul(mem.weights, URow(2, j), r, hv,
                                           b * HiddenSize, HiddenSize)),
                             mem.weights[BIdx(2, j)]))
            IN  Add(Mul(Sub(1, z[i]), hv[i]), Mul(z[i], h_tilde))]

\* The LSTM equations over the hidden vector hv and the cell vector cv.
LstmC(hv, cv) ==
    [i \in StateIdx |->
        Add(Mul(sigmoid(RefGate(1, Row(i), Unit(i), hv)), cv[i]),
            Mul(sigmoid(RefGate(0, Row(i), Unit(i), hv)),
                Tanh(RefGate(3, Row(i), Unit(i), hv))))]
LstmH(hv, cv) ==
    LET c == LstmC(hv, cv)
    IN  [i \in StateIdx |->
            Mul(sigmoid(RefGate(2, Row(i), Unit(i), hv)), Tanh(c[i]))]

\* The RRU equations over the hidden vector hv.
RruH(hv) ==
    [i \in StateIdx |->
        LET gate == sigmoid(RefGate(1, Row(i), Unit(i), hv))
        IN  Add(Mul(Sub(1, gate), hv[i]),
                Mul(gate, Tanh(RefGate(0, Row(i), Unit(i), hv))))]

RefH(hv, cv) ==
    CASE entry = "gru_step" -> GruH(hv)
      [] entry = "lstm_step" -> LstmH(hv, cv)
      [] OTHER -> RruH(hv)

\* C5: after every step call that passes the guards, h_prev holds the
\* pre-call h (and for LSTM c_prev the pre-call c) at every b * hidden_size
\* + j with b < batch_count, j < hidden_size, and the new h (and c) of every
\* unit is the value of the step equations over the pre-call hidden vector
\* of its row: no unit sees a value of h or c written earlier in the call.
C5_SnapshotBeforeUpdate ==
    Stepped =>
        \A i \in StateIdx :
            /\ mem.h_prev[i] = pre.h[i]
            /\ mem.h[i] = RefH(pre.h, pre.c)[i]
            /\ entry = "lstm_step" =>
                   /\ mem.c_prev[i] = pre.c[i]
                   /\ mem.c[i] = LstmC(pre.h, pre.c)[i]

\* The second call of a sequence, on the state the first one left, with
\* several units per row.
C5_Witness ==
    /\ Stepped /\ ncalls = 2 /\ entry = "lstm_step"
    /\ HiddenSize = MaxHidden /\ BatchCount = MaxBatch /\ InSize = MaxIn
    /\ \A i \in StateIdx : mem.h_prev[i] = pre.h[i] /\ mem.c_prev[i] = pre.c[i]
    /\ mem.h # pre.h /\ mem.c # pre.c

\* C6: the gates are taken from the blob block by block: block g of W at
\* g*H*I, of U at G*H*I + g*H*H, of b at G*H*I + G*H*H + g*H, row j of a
\* block at j*I (W), j*H (U), j (b); GRU in the order z, r, h (U_h applied
\* to r times h_prev), LSTM in the order i, f, o, g, RRU in the order
\* candidate, gate.  Stated on the buffers the call leaves: z, r, h and c
\* are the step equations over the h_prev and c_prev it wrote.
C6_WeightLayout ==
    Stepped =>
        /\ entry = "gru_step" =>
               \A i \in StateIdx :
                   /\ mem.z[i] = GruZ(mem.h_prev)[i]
                   /\ mem.r[i] = GruR(mem.h_prev)[i]
                   /\ mem.h[i] = GruH(mem.h_prev)[i]
        /\ entry = "lstm_step" =>
               \A i \in StateIdx :
                   /\ mem.c[i] = LstmC(mem.h_prev, mem.c_prev)[i]
                   /\ mem.h[i] = LstmH(mem.h_prev, mem.c_prev)[i]
        /\ entry = "rru_step" =>
               \A i \in StateIdx : mem.h[i] = RruH(mem.h_prev)[i]

C6_Witness ==
    /\ Stepped /\ entry = "gru_step"
    /\ HiddenSize = MaxHidden /\ InSize = MaxIn /\ BatchCount = MaxBatch
    /\ mem.z = [i \in DOMAIN mem.z |->
                  IF i \in StateIdx THEN GruZ(mem.h_prev)[i] ELSE pre.z[i]]
    /\ mem.z # pre.z /\ mem.r # pre.r /\ mem.h # pre.h

\* C7: a step call with non-null pointers and in_size, hidden_size or
\* batch_count zero or negative stores nothing: h, c, z, r, h_prev and
\* c_prev keep their pre-call contents.
C7_RecZeroSizeIsNoOp ==
    (Called /\ Recurrent /\ NoNull
        /\ (args.in_size <= 0 \/ args.hidden_size <= 0 \/ args.batch_count <= 0))
    => NoOp

C7_Witness ==
    /\ Called /\ entry = "gru_step" /\ NoNull
    /\ args.in_size = 0 /\ args.hidden_size = MaxHidden
    /\ args.batch_count = MaxBatch
    /\ mem.h_prev = pre.h_prev /\ mem.h_prev # mem.h /\ mem.wr = {}

\* --------------------------------------------------------- access extents
ReadsOf(b) == {x[2] : x \in {y \in mem.rd : y[1] = b}}
WritesOf(b) == {x[2] : x \in {y \in mem.wr : y[1] = b}}
Below(S, n) == \A i \in S : 0 <= i /\ i < n

\* Sum over the layer transitions l < n of outs * (ins + 1).
RECURSIVE MlpBlobLen(_)
MlpBlobLen(n) ==
    IF n <= 0 THEN 0
    ELSE MlpBlobLen(n - 1)
         + to_usize(mem.layer_sizes[n]) * (to_usize(mem.layer_sizes[n - 1]) + 1)

StateBufs == {"h", "c", "z", "r", "h_prev", "c_prev"}

=============================================================================
